---- MODULE Spec2Model ----
(***************************************************************************)
(* Model of the two Solace Node.js tutorial scripts:                       *)
(*   - QueueProducer        (src/src/basic-samples/QueueProducer.js)       *)
(*   - GuaranteedRequestor  (src/unnamed/part_000)                         *)
(* One node process runs one of the two scripts.  The solclientjs library  *)
(* is the environment, and nothing is assumed of it beyond what the        *)
(* scripts themselves rely on: it delivers session and flow events to the  *)
(* callbacks the script registered, any event any number of times in any   *)
(* order, until the process exits; session.connect, session.send and       *)
(* session.disconnect each return or throw.  An exception that leaves a    *)
(* callback is absorbed by the library's emitter or ends the process.      *)
(***************************************************************************)
EXTENDS Integers, Sequences, FiniteSets, TLC

\* Number of library events (session and flow events) delivered in one run.
MaxEvents == 4

\* JavaScript null: as a string value (correlation identifier, message field)
\* and as an object reference (the session fields; sessions are numbered from 1).
null == "null"
nullRef == 0

\* The two scripts, and the queue name each passes to its constructor.
Scripts == {"QueueProducer", "GuaranteedRequestor"}
producerQueueName == "tutorial/queue"
requestorQueueName == "tutorial/requestqueue"

\* process.argv: node, the script, then the real arguments.
Argvs ==
    { <<"node", "script">>,
      <<"node", "script", "host:port", "user", "password">>,
      <<"node", "script", "host:port", "user", "password", "vpn">> }

\* Correlation identifiers an inbound message can carry (null when unset).
CorrelationIds == {null, "MyCorrelationID", "OtherCorrelationID"}

\* Log lines, named by the text the scripts print.
LogReady == "*** ready to connect ***"
LogUsage == "Cannot connect: expecting all arguments"
LogAlready == "Already connected and ready to send"
LogConnectingTo == "Connecting to Solace message router using WebSocket transport url"
LogVpn == "Solace message router VPN name"
LogUser == "Client username"
LogUp == "=== Successfully connected and ready to send ==="
LogConnecting == "Connecting..."
LogDisconnected == "Disconnected."
LogSending == "Sending"
LogSent == "Message sent."
\* error.toString() of the error thrown by connect, send and disconnect.
LogConnectError == "error.toString() of session.connect"
LogSendError == "error.toString() of session.send"
LogDisconnectError == "error.toString() of session.disconnect"
LogCannotSend == "Cannot send because not connected to Solace message router."
LogDisconnecting == "Disconnecting from Solace message router..."
LogNotConnected == "Not connected to Solace message router."
LogReply == "Received reply"
LogNoMatch == "Received reply but correlation ID didn't match"

VARIABLES
    script,     \* which of the two scripts this node process runs
    argv,       \* process.argv
    pc,         \* "start" (before run), "loop" (event loop), "exited", "crashed"
    producer,   \* the producer object: [session]
    requestor,  \* the requestor object: [session, correlationID]
    lib,        \* the library's side of the session: calls made on it, events emitted
    flows,      \* subscriber flows created, in order: [replyTo, connected, up]
    sent,       \* messages handed to session.send, in order
    timers,     \* pending setTimeout(process.exit) timers
    log,        \* console output, in order
    uncaught,   \* exceptions thrown out of a callback, in order
    events      \* library events delivered so far, in order

vars == <<script, argv, pc, producer, requestor, lib, flows, sent, timers, log,
          uncaught, events>>

\* The part of the state the scripts' functions read and write, as one record.
World ==
    [pc |-> pc, producer |-> producer, requestor |-> requestor, lib |-> lib,
     flows |-> flows, sent |-> sent, timers |-> timers, log |-> log,
     uncaught |-> uncaught]

Commit(w) ==
    /\ pc' = w.pc
    /\ producer' = w.producer
    /\ requestor' = w.requestor
    /\ lib' = w.lib
    /\ flows' = w.flows
    /\ sent' = w.sent
    /\ timers' = w.timers
    /\ log' = w.log
    /\ uncaught' = w.uncaught

----------------------------------------------------------------------------
\* The library: messages and sessions.

\* solace.SolclientFactory.createMessage(): a message with nothing set; the
\* library's default delivery mode is DIRECT.
createMessage ==
    [destination |-> null, destinationType |-> null, binaryAttachment |-> null,
     replyTo |-> nullRef, correlationId |-> null, deliveryMode |-> "DIRECT"]

setDestination(m, name, type) ==
    [m EXCEPT !.destination = name, !.destinationType = type]
setBinaryAttachment(m, text) == [m EXCEPT !.binaryAttachment = text]
setReplyTo(m, q) == [m EXCEPT !.replyTo = q]
setCorrelationId(m, id) == [m EXCEPT !.correlationId = id]
setDeliveryMode(m, mode) == [m EXCEPT !.deliveryMode = mode]

\* session.send(msg) on session s: the message is handed to the transport,
\* and the call returns or throws.
session_send(w, s, m, throws) ==
    [w EXCEPT !.sent = Append(@, [msg |-> m, session |-> s, threw |-> throws])]

\* solace.SolclientFactory.createSession(): a new session object.
createSession(w) == [w EXCEPT !.lib.created = @ + 1]
session_connect(w) == [w EXCEPT !.lib.connectCalls = @ + 1]
session_disconnect(w) == [w EXCEPT !.lib.disconnectCalls = @ + 1]
session_dispose(w) == [w EXCEPT !.lib.disposeCalls = @ + 1]

\* setTimeout(function () { process.exit(); }, 1000)
setTimeout(w) == [w EXCEPT !.timers = @ + 1]

\* An exception leaves the callback that was running.
throw(w, error) == [w EXCEPT !.uncaught = Append(@, error)]

----------------------------------------------------------------------------
\* QueueProducer

producer_log(w, line) == [w EXCEPT !.log = Append(@, line)]

\* Gracefully disconnects from Solace message router
producer_disconnect(w, disconnectThrows) ==
    LET w1 == producer_log(w, LogDisconnecting) IN
    IF w1.producer.session # nullRef
    THEN LET w2 == session_disconnect(w1) IN
         IF disconnectThrows THEN producer_log(w2, LogDisconnectError) ELSE w2
    ELSE producer_log(w1, LogNotConnected)

\* exit() that disconnects and arms no timer.
producer_exit_noTimer(w, disconnectThrows) ==
    producer_disconnect(w, disconnectThrows)

producer_exit(w, disconnectThrows) ==
    setTimeout(producer_disconnect(w, disconnectThrows))

\* sendMessage with the setDeliveryMode call left out: the message keeps the
\* library's default delivery mode.
producer_sendMessage_noDeliveryMode(w, sendThrows) ==
    IF w.producer.session # nullRef
    THEN LET m0 == createMessage
             w1 == producer_log(w, LogSending)
             m1 == setDestination(m0, producerQueueName, "QUEUE")
             message == setBinaryAttachment(m1, "Sample Message")
             w2 == session_send(w1, w1.producer.session, message, sendThrows)
         IN IF sendThrows THEN producer_log(w2, LogSendError)
                          ELSE producer_log(w2, LogSent)
    ELSE producer_log(w, LogCannotSend)

\* Sends one message
producer_sendMessage(w, sendThrows) ==
    IF w.producer.session # nullRef
    THEN LET m0 == createMessage
             w1 == producer_log(w, LogSending)
             m1 == setDestination(m0, producerQueueName, "QUEUE")
             m2 == setBinaryAttachment(m1, "Sample Message")
             message == setDeliveryMode(m2, "PERSISTENT")
             w2 == session_send(w1, w1.producer.session, message, sendThrows)
         IN IF sendThrows THEN producer_log(w2, LogSendError)
                          ELSE producer_log(w2, LogSent)
    ELSE producer_log(w, LogCannotSend)

\* The UP_NOTICE callback with the two calls in the other order.
producer_onUP_NOTICE_exitFirst(w, sendThrows, disconnectThrows) ==
    LET w1 == producer_log(w, LogUp)
        w2 == producer_exit(w1, disconnectThrows)
    IN producer_sendMessage(w2, sendThrows)

\* session.on(UP_NOTICE)
producer_onUP_NOTICE(w, sendThrows, disconnectThrows) ==
    LET w1 == producer_log(w, LogUp)
        w2 == producer_sendMessage(w1, sendThrows)
    IN producer_exit(w2, disconnectThrows)

\* The DISCONNECTED callback that disposes the session and keeps the field.
producer_onDISCONNECTED_keepsSession(w) ==
    LET w1 == producer_log(w, LogDisconnected) IN
    IF w1.producer.session # nullRef
    THEN session_dispose(w1)
    ELSE w1

\* session.on(DISCONNECTED)
producer_onDISCONNECTED(w) ==
    LET w1 == producer_log(w, LogDisconnected) IN
    IF w1.producer.session # nullRef
    THEN [session_dispose(w1) EXCEPT !.producer.session = nullRef]
    ELSE w1

producer_connectToSolace(w, connectThrows) ==
    LET w1 == producer_log(producer_log(producer_log(w, LogConnectingTo), LogVpn), LogUser)
        w2 == createSession(w1)
        w3 == [w2 EXCEPT !.producer.session = w2.lib.created]
        w4 == session_connect(w3)
    IN IF connectThrows THEN producer_log(w4, LogConnectError) ELSE w4

\* Establishes connection to Solace message router by its hostname
producer_connect(w, connectThrows) ==
    IF w.producer.session # nullRef
    THEN producer_log(w, LogAlready)
    ELSE producer_connectToSolace(w, connectThrows)

\* run() that counts one real argument too few before connecting.
producer_run_threeArguments(w, args, connectThrows) ==
    IF Len(args) >= (2 + 3)
    THEN producer_connect(w, connectThrows)
    ELSE producer_log(w, LogUsage)

\* main function
producer_run(w, args, connectThrows) ==
    IF Len(args) >= (2 + 4)
    THEN producer_connect(w, connectThrows)
    ELSE producer_log(w, LogUsage)

----------------------------------------------------------------------------
\* GuaranteedRequestor

requestor_log(w, line) == [w EXCEPT !.log = Append(@, line)]

\* Gracefully disconnects from Solace message router
requestor_disconnect(w, disconnectThrows) ==
    LET w1 == requestor_log(w, LogDisconnecting) IN
    IF w1.requestor.session # nullRef
    THEN LET w2 == session_disconnect(w1) IN
         IF disconnectThrows THEN requestor_log(w2, LogDisconnectError) ELSE w2
    ELSE requestor_log(w1, LogNotConnected)

requestor_exit(w, disconnectThrows) ==
    setTimeout(requestor_disconnect(w, disconnectThrows))

\* flow.on(UP) of the flow bound to temporary queue replyToQueue: send the
\* request when the listening flow is up
flow_onUP(w, replyToQueue, sendThrows) ==
    LET m0 == createMessage
        w1 == requestor_log(w, LogSending)
        m1 == setDestination(m0, requestorQueueName, "QUEUE")
        m2 == setBinaryAttachment(m1, "Sample Request")
        m3 == setReplyTo(m2, replyToQueue)
        w2 == [w1 EXCEPT !.requestor.correlationID = "MyCorrelationID"]
        m4 == setCorrelationId(m3, w2.requestor.correlationID)
        msg == setDeliveryMode(m4, "PERSISTENT")
    IN IF w2.requestor.session = nullRef
       THEN throw(w2, "TypeError")
       ELSE LET w3 == session_send(w2, w2.requestor.session, msg, sendThrows) IN
            IF sendThrows THEN throw(w3, "OperationError") ELSE w3

\* flow.on(MESSAGE): process the response received at the replyToQueue
flow_onMESSAGE(w, correlationId, disconnectThrows) ==
    LET w1 == IF correlationId = w.requestor.correlationID
              THEN requestor_log(w, LogReply)
              ELSE requestor_log(w, LogNoMatch)
    IN requestor_exit(w1, disconnectThrows)

\* request() that sends as soon as flow.connect() has been called, without
\* waiting for the flow's UP event.
requestor_request_sendBeforeUp(w) ==
    IF w.requestor.session # nullRef
    THEN LET replyToQueue == Len(w.flows) + 1
             w1 == [w EXCEPT !.flows = Append(@, [replyTo |-> replyToQueue,
                                                   session |-> w.requestor.session,
                                                   connected |-> TRUE, up |-> FALSE])]
         IN flow_onUP(w1, replyToQueue, FALSE)
    ELSE requestor_log(w, LogCannotSend)

\* sends one request
requestor_request(w) ==
    IF w.requestor.session # nullRef
    THEN LET replyToQueue == Len(w.flows) + 1 IN
         [w EXCEPT !.flows = Append(@, [replyTo |-> replyToQueue,
                                         session |-> w.requestor.session,
                                         connected |-> TRUE, up |-> FALSE])]
    ELSE requestor_log(w, LogCannotSend)

\* session.on(UP_NOTICE)
requestor_onUP_NOTICE(w) ==
    requestor_request(requestor_log(w, LogUp))

\* session.on(DISCONNECTED)
requestor_onDISCONNECTED(w) ==
    LET w1 == requestor_log(w, LogDisconnected) IN
    IF w1.requestor.session # nullRef
    THEN [session_dispose(w1) EXCEPT !.requestor.session = nullRef]
    ELSE w1

requestor_connectToSolace(w, connectThrows) ==
    LET w1 == requestor_log(requestor_log(requestor_log(w, LogConnectingTo), LogVpn), LogUser)
        w2 == createSession(w1)
        w3 == [w2 EXCEPT !.requestor.session = w2.lib.created]
        w4 == session_connect(w3)
    IN IF connectThrows THEN requestor_log(w4, LogConnectError) ELSE w4

\* connect() without the check of the session field.
requestor_connect_noCheck(w, connectThrows) ==
    requestor_connectToSolace(w, connectThrows)

\* Establishes connection to Solace message router
requestor_connect(w, connectThrows) ==
    IF w.requestor.session # nullRef
    THEN requestor_log(w, LogAlready)
    ELSE requestor_connectToSolace(w, connectThrows)

\* main function
requestor_run(w, args, connectThrows) ==
    IF Len(args) >= (2 + 4)
    THEN requestor_connect(w, connectThrows)
    ELSE requestor_log(w, LogUsage)

----------------------------------------------------------------------------
\* The node process and the library's event delivery.

Event(kind, flow, correlationId) ==
    [kind |-> kind, flow |-> flow, correlationId |-> correlationId]

\* The script has returned to the event loop: with no session created nothing
\* keeps the loop alive and node exits.
AfterMain(w) ==
    [w EXCEPT !.pc = IF w.lib.created = 0 THEN "exited" ELSE "loop"]

\* A callback has returned or thrown: an exception that left it either is
\* absorbed by the emitter or ends the process.
AfterCallback(w, before, crash) ==
    IF Len(w.uncaught) > Len(before.uncaught) /\ crash
    THEN [w EXCEPT !.pc = "crashed"]
    ELSE w

\* The library may deliver an event: the script is in its event loop and has
\* registered its session callbacks.
CanDeliver ==
    /\ pc = "loop"
    /\ lib.created > 0
    /\ Len(events) < MaxEvents

Deliver(e) ==
    /\ events' = Append(events, e)
    /\ UNCHANGED <<script, argv>>

Init ==
    /\ script \in Scripts
    /\ argv \in Argvs
    /\ pc = "start"
    /\ producer = [session |-> nullRef]
    /\ requestor = [session |-> nullRef, correlationID |-> null]
    /\ lib = [created |-> 0, connectCalls |-> 0, disconnectCalls |-> 0,
              disposeCalls |-> 0, upNotices |-> 0, disconnectedEvents |-> 0]
    /\ flows = << >>
    /\ sent = << >>
    /\ timers = 0
    /\ log = <<LogReady>>
    /\ uncaught = << >>
    /\ events = << >>

\* producer.run(process.argv)
ProducerMain ==
    /\ script = "QueueProducer"
    /\ pc = "start"
    /\ \E connectThrows \in BOOLEAN :
          Commit(AfterMain(producer_run(World, argv, connectThrows)))
    /\ UNCHANGED <<script, argv, events>>

\* requestor.run(process.argv)
RequestorMain ==
    /\ script = "GuaranteedRequestor"
    /\ pc = "start"
    /\ \E connectThrows \in BOOLEAN :
          Commit(AfterMain(requestor_run(World, argv, connectThrows)))
    /\ UNCHANGED <<script, argv, events>>

ProducerUpNotice ==
    /\ script = "QueueProducer"
    /\ CanDeliver
    /\ \E sendThrows \in BOOLEAN, disconnectThrows \in BOOLEAN :
          Commit(producer_onUP_NOTICE([World EXCEPT !.lib.upNotices = @ + 1],
                                      sendThrows, disconnectThrows))
    /\ Deliver(Event("UP_NOTICE", nullRef, null))

ProducerDisconnected ==
    /\ script = "QueueProducer"
    /\ CanDeliver
    /\ Commit(producer_onDISCONNECTED([World EXCEPT !.lib.disconnectedEvents = @ + 1]))
    /\ Deliver(Event("DISCONNECTED", nullRef, null))

RequestorUpNotice ==
    /\ script = "GuaranteedRequestor"
    /\ CanDeliver
    /\ Commit(requestor_onUP_NOTICE([World EXCEPT !.lib.upNotices = @ + 1]))
    /\ Deliver(Event("UP_NOTICE", nullRef, null))

RequestorConnecting ==
    /\ script = "GuaranteedRequestor"
    /\ CanDeliver
    /\ Commit(requestor_log(World, LogConnecting))
    /\ Deliver(Event("CONNECTING", nullRef, null))

RequestorDisconnected ==
    /\ script = "GuaranteedRequestor"
    /\ CanDeliver
    /\ Commit(requestor_onDISCONNECTED([World EXCEPT !.lib.disconnectedEvents = @ + 1]))
    /\ Deliver(Event("DISCONNECTED", nullRef, null))

\* The flow emits UP to the callback registered on it.
FlowUp ==
    /\ script = "GuaranteedRequestor"
    /\ CanDeliver
    /\ \E f \in DOMAIN flows, sendThrows \in BOOLEAN, crash \in BOOLEAN :
          LET before == [World EXCEPT !.flows[f].up = TRUE] IN
          /\ Commit(AfterCallback(flow_onUP(before, flows[f].replyTo, sendThrows),
                                  before, crash))
          /\ Deliver(Event("flow.UP", f, null))

\* The flow delivers a message to the callback registered on it.
FlowMessage ==
    /\ script = "GuaranteedRequestor"
    /\ CanDeliver
    /\ \E f \in DOMAIN flows, correlationId \in CorrelationIds,
          disconnectThrows \in BOOLEAN :
          /\ Commit(flow_onMESSAGE(World, correlationId, disconnectThrows))
          /\ Deliver(Event("flow.MESSAGE", f, correlationId))

\* A timer set by exit() fires: process.exit()
ExitTimer ==
    /\ pc = "loop"
    /\ timers > 0
    /\ pc' = "exited"
    /\ UNCHANGED <<script, argv, producer, requestor, lib, flows, sent, timers,
                   log, uncaught, events>>

Next ==
    \/ ProducerMain
    \/ RequestorMain
    \/ ProducerUpNotice
    \/ ProducerDisconnected
    \/ RequestorUpNotice
    \/ RequestorConnecting
    \/ RequestorDisconnected
    \/ FlowUp
    \/ FlowMessage
    \/ ExitTimer

Spec == Init /\ [][Next]_vars

\* The node runtime runs a timer that is due.
FairSpec == Spec /\ WF_vars(ExitTimer)

\* The sample object used through its connect() method as well: a caller
\* invokes connect() again while the process is in its event loop.
ProducerConnect ==
    /\ script = "QueueProducer"
    /\ CanDeliver
    /\ \E connectThrows \in BOOLEAN :
          Commit(producer_connect(World, connectThrows))
    /\ Deliver(Event("connect", nullRef, null))

RequestorConnect ==
    /\ script = "GuaranteedRequestor"
    /\ CanDeliver
    /\ \E connectThrows \in BOOLEAN :
          Commit(requestor_connect(World, connectThrows))
    /\ Deliver(Event("connect", nullRef, null))

ApiNext ==
    \/ Next
    \/ ProducerConnect
    \/ RequestorConnect

ApiSpec == Init /\ [][ApiNext]_vars

----------------------------------------------------------------------------
\* Properties.

Last(seq) == seq[Len(seq)]
Count(seq, x) == Cardinality({i \in DOMAIN seq : seq[i] = x})
Positions(seq, x) == {i \in DOMAIN seq : seq[i] = x}

\* The session field of the script that is running.
Session == IF script = "QueueProducer" THEN producer.session ELSE requestor.session

\* This step delivered a library event of one of the given kinds.
Delivered(kinds) ==
    /\ Len(events') = Len(events) + 1
    /\ Last(events').kind \in kinds

\* The lines this step added to the log.
NewLines == {log'[i] : i \in (Len(log) + 1)..Len(log')}

\* C1: every request handed to session.send names a reply-to temporary queue
\* whose subscriber flow exists and has already emitted its UP event; none is
\* sent while that flow is unopened or still opening.
C1_RequestSentAfterFlowUp ==
    script = "GuaranteedRequestor" =>
        \A i \in DOMAIN sent :
            /\ sent[i].msg.replyTo \in DOMAIN flows
            /\ flows[sent[i].msg.replyTo].connected
            /\ flows[sent[i].msg.replyTo].up

C1_Witness ==
    /\ script = "GuaranteedRequestor"
    /\ Len(sent) = 1
    /\ sent[1].msg.replyTo = 1
    /\ Len(flows) = 2
    /\ ~flows[2].up

\* C2: every message handed to session.send, by either script, has delivery
\* mode PERSISTENT.
C2_SentMessagesPersistent ==
    \A i \in DOMAIN sent : sent[i].msg.deliveryMode = "PERSISTENT"

C2_Witness ==
    /\ script = "QueueProducer"
    /\ Len(sent) > 0
    /\ sent[1].msg.destination = producerQueueName

\* The producer's session became connected: UP_NOTICE was delivered before
\* any DISCONNECTED.
ProducerConnected ==
    /\ script = "QueueProducer"
    /\ \E i \in DOMAIN events :
          /\ events[i].kind = "UP_NOTICE"
          /\ \A j \in 1..(i - 1) : events[j].kind # "DISCONNECTED"

\* C3: in a producer run whose session becomes connected, session.send is
\* invoked exactly once, to queue tutorial/queue in persistent mode, for any
\* sequence of session events and also when the send throws (logged once).
C3_ProducerSendsExactlyOnce ==
    ProducerConnected =>
        /\ Len(sent) = 1
        /\ sent[1].msg.destination = "tutorial/queue"
        /\ sent[1].msg.deliveryMode = "PERSISTENT"
        /\ sent[1].threw => Count(log, LogSendError) = 1

\* C4: session.send is invoked only on an established session (field not
\* null, UP_NOTICE delivered), and a send attempted while the session field
\* is null reports "not connected" and transmits nothing.
C4_SendRequiresEstablishedSession ==
    [][ /\ Len(sent') > Len(sent) =>
              /\ Session # nullRef
              /\ lib'.upNotices > 0
        /\ ( /\ Session = nullRef
             /\ \/ script = "QueueProducer" /\ Delivered({"UP_NOTICE"})
                \/ script = "GuaranteedRequestor" /\ Delivered({"UP_NOTICE", "flow.UP"}) )
           => /\ sent' = sent
              /\ LogCannotSend \in NewLines
              /\ uncaught' = uncaught ]_vars

\* A request was handed to the transport and the send returned.
RequestSent ==
    /\ script = "GuaranteedRequestor"
    /\ \E i \in DOMAIN sent : ~sent[i].threw

\* C5: while a request is outstanding, a message on the reply flow whose
\* correlation identifier differs from the request's is logged and discarded:
\* no disconnect, no exit timer, the process keeps running.
C5_UnmatchedReplyNotEscalated ==
    [][ ( /\ RequestSent
          /\ timers = 0
          /\ Delivered({"flow.MESSAGE"})
          /\ Last(events').correlationId # requestor.correlationID )
        => /\ LogNoMatch \in NewLines
           /\ lib'.disconnectCalls = lib.disconnectCalls
           /\ timers' = timers
           /\ pc' = pc ]_vars

\* The process has ended.
Finished == pc \in {"exited", "crashed"}

\* C6: once the request is sent the exchange eventually finishes, also when
\* no reply is ever delivered (a timeout bounds the wait).
C6_RequestEventuallyFinishes == RequestSent ~> Finished

\* C7: a DISCONNECTED event while a request is outstanding (sent, no message
\* received yet) leads to the requestor finishing.
C7_DisconnectFailsOutstanding ==
    ( /\ RequestSent
      /\ Count(log, LogReply) + Count(log, LogNoMatch) = 0
      /\ lib.disconnectedEvents > 0 ) ~> Finished

\* The log lines printed after the first request was announced.
AfterRequest == {i \in DOMAIN log : \E j \in Positions(log, LogSending) : j < i}

\* C8: for the single request sent, at most one inbound message is reported
\* as the received reply.
C8_AtMostOneReply ==
    (script = "GuaranteedRequestor" /\ Len(sent) = 1) =>
        Cardinality(Positions(log, LogReply) \cap AfterRequest) <= 1

\* C9: once exit() has been called, a message arriving on the reply flow is
\* discarded: it is not reported as the reply and starts no further
\* disconnect or exit timer.
C9_MessageAfterTeardownDiscarded ==
    [][ (timers > 0 /\ Delivered({"flow.MESSAGE"}))
        => /\ LogReply \notin NewLines
           /\ lib'.disconnectCalls = lib.disconnectCalls
           /\ timers' = timers ]_vars

\* C10: no two requests sent on the same reply flow carry the same
\* correlation identifier.
C10_CorrelationIdsUnique ==
    script = "GuaranteedRequestor" =>
        \A i, j \in DOMAIN sent :
            (i # j /\ sent[i].msg.replyTo = sent[j].msg.replyTo)
                => sent[i].msg.correlationId # sent[j].msg.correlationId

\* C11: when session.send of the request throws after the correlation
\* identifier was recorded, the recorded identifier is removed and the
\* exchange is aborted (the process ends or its exit is scheduled).
C11_FailedSendLeavesNoCorrelation ==
    [][ ( /\ script = "GuaranteedRequestor"
          /\ Len(sent') = Len(sent) + 1
          /\ Last(sent').threw )
        => /\ requestor'.correlationID = null
           /\ (timers' > 0 \/ pc' # "loop") ]_vars

\* C12: the close path is idempotent: however often exit()/disconnect() runs,
\* at most one transport-level session.disconnect() is issued.
C12_TeardownIdempotent ==
    lib.disconnectCalls <= 1

\* C13: with fewer than four real arguments run() only logs the usage line:
\* no session is created, session.connect is never called, the session field
\* stays null and nothing is sent.
C13_MissingArgumentsOnlyUsage ==
    Len(argv) < 6 =>
        /\ lib.created = 0
        /\ lib.connectCalls = 0
        /\ producer.session = nullRef
        /\ requestor.session = nullRef
        /\ sent = << >>
        /\ pc # "start" => log = <<LogReady, LogUsage>>

C13_Witness ==
    /\ script = "QueueProducer"
    /\ Len(argv) = 5
    /\ pc = "exited"
    /\ log = <<LogReady, LogUsage>>

\* exit() has been called: disconnect(), which only exit() calls, has logged.
ExitCalled == Count(log, LogDisconnecting) > 0

\* C14: once exit() has been called the process eventually ends, whether or
\* not DISCONNECTED is delivered, session.disconnect() throws or the session
\* was already null.
C14_ExitCalledLeadsToExit == ExitCalled ~> Finished

C14_Witness ==
    /\ pc = "exited"
    /\ ExitCalled
    /\ Count(log, LogDisconnectError) > 0
    /\ lib.disconnectedEvents = 0

\* C15: in the producer every disconnect() directly follows the outcome of a
\* send attempt of the same UP_NOTICE, every UP_NOTICE is followed by a
\* disconnect() (also when the send threw), and session.disconnect() is never
\* called more often than session.send.
C15_ProducerSendThenDisconnect ==
    script = "QueueProducer" =>
        /\ \A i \in Positions(log, LogDisconnecting) :
              log[i - 1] \in {LogSent, LogSendError, LogCannotSend}
        /\ Count(log, LogUp) = Count(log, LogDisconnecting)
        /\ lib.disconnectCalls <= Len(sent)

C15_Witness ==
    /\ script = "QueueProducer"
    /\ Len(sent) = 1
    /\ sent[1].threw
    /\ lib.disconnectCalls = 1

\* The calls made on sessions so far.
SessionCalls ==
    <<lib.created, lib.connectCalls, lib.disconnectCalls, lib.disposeCalls, sent, flows>>

\* C16: after every DISCONNECTED event the session field is null, dispose() is
\* called at most once per created session, and a DISCONNECTED event that
\* finds the field already null changes no field and calls nothing.
C16_SessionDisposedOnce ==
    /\ [](lib.disposeCalls <= lib.created)
    /\ [][ Delivered({"DISCONNECTED"})
            => /\ Session' = nullRef
               /\ Session = nullRef =>
                     /\ producer' = producer
                     /\ requestor' = requestor
                     /\ SessionCalls' = SessionCalls
                     /\ timers' = timers ]_vars

C16_Witness ==
    /\ script = "QueueProducer"
    /\ lib.disconnectedEvents = 2
    /\ lib.disposeCalls = 1
    /\ producer.session = nullRef

\* The sample holds a session in the Connected state: the field is set, and
\* UP_NOTICE was received for it with no DISCONNECTED and no new session since.
Connected ==
    /\ Session # nullRef
    /\ \E i \in Positions(log, LogUp) :
          \A j \in (i + 1)..Len(log) : log[j] \notin {LogDisconnected, LogConnectingTo}

\* C17: connect() answers "Already connected and ready to send" only when the
\* sample holds a session in the Connected state, not while the session is
\* still connecting nor after session.connect() threw.
C17_AlreadyConnectedOnlyWhenConnected ==
    [][ (LogAlready \in NewLines) => Connected ]_vars

\* C18: createSession is invoked only when the session field is null, so at
\* most one session that the DISCONNECTED handler has not disposed exists.
C18_AtMostOneLiveSession ==
    /\ [](/\ lib.created <= lib.disposeCalls + 1
          /\ Session = nullRef <=> lib.created = lib.disposeCalls)
    /\ [][ (lib'.created > lib.created) => Session = nullRef ]_vars

C18_Witness ==
    /\ script = "GuaranteedRequestor"
    /\ lib.created = 2
    /\ lib.disposeCalls = 1
    /\ Count(log, LogAlready) = 1

\* C19: a message on the reply flow is reported as the received reply exactly
\* when its correlation identifier is that of a request that was sent; none
\* is reported while no request has been sent.
C19_ReplyIffRequestSent ==
    [][ Delivered({"flow.MESSAGE"})
        => ( (LogReply \in NewLines)
             <=> \E i \in DOMAIN sent :
                    /\ ~sent[i].threw
                    /\ sent[i].msg.correlationId = Last(events').correlationId ) ]_vars

====
